---- MODULE Spec2Model ----
(***************************************************************************)
(* SimpleMarketplaceASC1: the approval program of a resale marketplace for *)
(* one asset unit (decentralized_marketplace_asc1.py).  The program is     *)
(* evaluated once per application call of a transaction group; it reads    *)
(* the group's records and the application's global key/value store and    *)
(* returns 1 (accept), returns 0 (reject) or fails (Assert, err, a btoi    *)
(* of more than 8 bytes, an argument or group index out of range, a        *)
(* comparison of a byte string with an integer).  The ledger keeps the     *)
(* writes of an evaluation only when it returned 1.                        *)
(***************************************************************************)
EXTENDS Integers, Sequences, FiniteSets, TLC

VARIABLES
    created,       \* the application exists (its id is no longer 0)
    global_state,  \* the global key/value store: a function on the keys written
    group,         \* the transaction group evaluated last (<<>> between groups)
    group_index,   \* position in the group of the call being evaluated
    handler,       \* the branch of application_start that was selected
    ret,           \* the outcome of the evaluation
    old,           \* global_state as it was when the evaluation began
    written,       \* the store as the program left it, before the ledger decided
    inits,         \* history: number of accepted initializeEscrow calls (capped)
    last_sell,     \* history: sender and price argument of the last accepted sell
    scenario,      \* history: steps of the end-to-end scenario done so far, or -1
    streak         \* history: accepted stopSelling calls in a row (capped)

vars ==
    <<created, global_state, group, group_index, handler, ret, old, written, inits,
      last_sell, scenario, streak>>

-----------------------------------------------------------------------------
(* Bounds of the model *)

\* largest group submitted (the buy protocol needs 3; 4 gives an oversized one)
MaxGroupSize == 4

\* cap of the history counter inits
MaxInits == 2

\* cap of the history counter streak
MaxStreak == 2

-----------------------------------------------------------------------------
(* TEAL values: a uint64 or a byte string *)

Uint(n) == [type |-> "uint", uint |-> n, bytes |-> <<>>]

Bytes(b) == [type |-> "bytes", uint |-> 0, bytes |-> b]

\* == on two stack values fails unless both have the same type
Comparable(a, b) == a.type = b.type

\* a 32-byte account address, every byte c
Address(c) == [i \in 1..32 |-> c]

\* big-endian value of a byte string
RECURSIVE BigEndian(_)
BigEndian(b) ==
    IF b = <<>> THEN 0
    ELSE 256 * BigEndian(SubSeq(b, 1, Len(b) - 1)) + b[Len(b)]

\* btoi is defined on at most 8 bytes and fails on more
BtoiFails(b) == Len(b) > 8

Btoi(b) == BigEndian(b)

\* the 8-byte encoding of a uint64 below 256
Itob(n) == <<0, 0, 0, 0, 0, 0, 0, n>>

-----------------------------------------------------------------------------
(* class Variables: the keys of the global store *)

escrow_address == "ESCROW_ADDRESS"

asa_id == "ASA_ID"

asa_price == "ASA_PRICE"

asa_owner == "ASA_OWNER"

app_state == "APP_STATE"

app_admin == "APP_ADMIN"

(* class AppMethods: the method names, as the bytes of their ASCII text *)

initialize_escrow_name ==
    <<105, 110, 105, 116, 105, 97, 108, 105, 122, 101, 69, 115, 99, 114, 111, 119>>

sell_name == <<115, 101, 108, 108>>

buy_name == <<98, 117, 121>>

stop_selling_name == <<115, 116, 111, 112, 83, 101, 108, 108, 105, 110, 103>>

(* class AppState *)

not_initialized == 0

active == 1

selling_in_progress == 2

-----------------------------------------------------------------------------
(* The global store *)

\* App.globalGetEx(Int(0), key).hasValue()
HasValue(gs, key) == key \in DOMAIN gs

\* App.globalGet(key): the value, or the integer 0 when the key was never written
GlobalGet(gs, key) == IF key \in DOMAIN gs THEN gs[key] ELSE Uint(0)

\* App.globalPut(key, value)
GlobalPut(gs, key, value) ==
    [k \in DOMAIN gs \cup {key} |-> IF k = key THEN value ELSE gs[k]]

\* outcomes of an evaluation, with the store as the program left it
Return(n, gs) == [ret |-> IF n = 1 THEN "accept" ELSE "reject", store |-> gs]

Fail(gs) == [ret |-> "abort", store |-> gs]

-----------------------------------------------------------------------------
(* Transaction records.  Every record has every field; a field its type   *)
(* does not use holds the zero value.                                     *)

Payment == "pay"

AssetTransfer == "axfer"

ApplicationCall == "appl"

ZeroAddress == Address(0)

PaymentTxn(s, r, a) ==
    [type_enum |-> Payment, sender |-> s, receiver |-> r, amount |-> a,
     asset_receiver |-> ZeroAddress, xfer_asset |-> 0, asset_amount |-> 0,
     application_id |-> 0, application_args |-> <<>>]

AssetTransferTxn(s, r, x, n) ==
    [type_enum |-> AssetTransfer, sender |-> s, receiver |-> ZeroAddress, amount |-> 0,
     asset_receiver |-> r, xfer_asset |-> x, asset_amount |-> n,
     application_id |-> 0, application_args |-> <<>>]

ApplicationCallTxn(s, id, args) ==
    [type_enum |-> ApplicationCall, sender |-> s, receiver |-> ZeroAddress, amount |-> 0,
     asset_receiver |-> ZeroAddress, xfer_asset |-> 0, asset_amount |-> 0,
     application_id |-> id, application_args |-> args]

\* Gtxn[k]: the k-th record of the group, counted from 0
Gtxn(grp, k) == grp[k + 1]

\* Txn: the call under evaluation
Txn(grp, i) == grp[i + 1]

-----------------------------------------------------------------------------------------------------------------------------------------------------
(* The handlers.  Each yields the outcome and the store it leaves.         *)

\* app_initialization that stores the second argument as the admin and the
\* third as the owner
app_initialization_swapped(gs, grp, i) ==
    LET args == Txn(grp, i).application_args
        s1 == GlobalPut(gs, app_state, Uint(not_initialized))
        s2 == GlobalPut(s1, asa_id, Uint(Btoi(args[1])))
        s3 == GlobalPut(s2, asa_owner, Bytes(args[3]))
        s4 == GlobalPut(s3, app_admin, Bytes(args[2]))
    IN  IF Len(args) # 3 THEN Fail(gs)
        ELSE IF BtoiFails(args[1]) THEN Fail(s1)
        ELSE Return(1, s4)

app_initialization(gs, grp, i) ==
    LET args == Txn(grp, i).application_args
        s1 == GlobalPut(gs, app_state, Uint(not_initialized))
        s2 == GlobalPut(s1, asa_id, Uint(Btoi(args[1])))
        s3 == GlobalPut(s2, asa_owner, Bytes(args[2]))
        s4 == GlobalPut(s3, app_admin, Bytes(args[3]))
    IN  IF Len(args) # 3 THEN Fail(gs)
        ELSE IF BtoiFails(args[1]) THEN Fail(s1)
        ELSE Return(1, s4)

\* not_admin that compares the caller with the asset's owner
not_owner(gs, grp, i) == GlobalGet(gs, asa_owner) # Bytes(Txn(grp, i).sender)

not_admin(gs, grp, i) == GlobalGet(gs, app_admin) # Bytes(Txn(grp, i).sender)

\* setup_escrow that stores the escrow address and leaves the state
setup_escrow_address_only(gs, grp, i) ==
    LET args == Txn(grp, i).application_args
        s1 == GlobalPut(gs, escrow_address, Bytes(args[2]))
    IN  IF Len(args) < 2 THEN Fail(gs) ELSE Return(1, s1)

setup_escrow(gs, grp, i) ==
    LET args == Txn(grp, i).application_args
        s1 == GlobalPut(gs, escrow_address, Bytes(args[2]))
        s2 == GlobalPut(s1, app_state, Uint(active))
    IN  IF Len(args) < 2 THEN Fail(gs) ELSE Return(1, s2)

\* initialize_escrow without the test that the escrow address is unset
initialize_escrow_again(gs, grp, i) ==
    LET not_valid_number_of_transactions == Len(grp) # 1
    IN  IF \/ not_admin(gs, grp, i)
           \/ not_valid_number_of_transactions
        THEN Return(0, gs)
        ELSE setup_escrow(gs, grp, i)

initialize_escrow(gs, grp, i) ==
    LET not_valid_number_of_transactions == Len(grp) # 1
    IN  IF \/ HasValue(gs, escrow_address)
           \/ not_admin(gs, grp, i)
           \/ not_valid_number_of_transactions
        THEN Return(0, gs)
        ELSE setup_escrow(gs, grp, i)

\* app_is_active that holds in the Active state only
app_is_active_only(gs) == GlobalGet(gs, app_state) = Uint(active)

app_is_active(gs) ==
    \/ GlobalGet(gs, app_state) = Uint(active)
    \/ GlobalGet(gs, app_state) = Uint(selling_in_progress)

\* valid_seller that compares the caller with the admin
valid_seller_admin(gs, grp, i) == Bytes(Txn(grp, i).sender) = GlobalGet(gs, app_admin)

valid_seller(gs, grp, i) == Bytes(Txn(grp, i).sender) = GlobalGet(gs, asa_owner)

\* can_sell without valid_seller
can_sell_anyone(gs, grp, i) ==
    LET valid_number_of_transactions == Len(grp) = 1
        valid_number_of_arguments == Len(Txn(grp, i).application_args) = 2
    IN  /\ valid_number_of_transactions
        /\ app_is_active(gs)
        /\ valid_number_of_arguments

can_sell(gs, grp, i) ==
    LET valid_number_of_transactions == Len(grp) = 1
        valid_number_of_arguments == Len(Txn(grp, i).application_args) = 2
    IN  /\ valid_number_of_transactions
        /\ app_is_active(gs)
        /\ valid_seller(gs, grp, i)
        /\ valid_number_of_arguments

\* sell that stores the price before it tests can_sell
sell_writes_first(gs, grp, i) ==
    LET args == Txn(grp, i).application_args
        s1 == GlobalPut(gs, asa_price, Uint(IF Len(args) >= 2 /\ ~BtoiFails(args[2])
                                            THEN Btoi(args[2]) ELSE 0))
        s2 == GlobalPut(s1, app_state, Uint(selling_in_progress))
    IN  IF ~can_sell(gs, grp, i) THEN Return(0, s1)
        ELSE IF BtoiFails(args[2]) THEN Fail(gs)
        ELSE Return(1, s2)

\* sell whose update_state stores the price and leaves the state
sell_stays_active(gs, grp, i) ==
    LET args == Txn(grp, i).application_args
        s1 == GlobalPut(gs, asa_price, Uint(Btoi(args[2])))
    IN  IF ~can_sell(gs, grp, i) THEN Return(0, gs)
        ELSE IF BtoiFails(args[2]) THEN Fail(gs)
        ELSE Return(1, s1)

sell(gs, grp, i) ==
    LET args == Txn(grp, i).application_args
        s1 == GlobalPut(gs, asa_price, Uint(Btoi(args[2])))
        s2 == GlobalPut(s1, app_state, Uint(selling_in_progress))
    IN  IF ~can_sell(gs, grp, i) THEN Return(0, gs)
        ELSE IF BtoiFails(args[2]) THEN Fail(gs)
        ELSE Return(1, s2)

\* valid_payment_to_seller without the check of the payment's receiver
valid_payment_any_receiver(gs, grp) ==
    /\ Gtxn(grp, 1).type_enum = Payment
    /\ Uint(Gtxn(grp, 1).amount) = GlobalGet(gs, asa_price)
    /\ Gtxn(grp, 1).sender = Gtxn(grp, 0).sender
    /\ Gtxn(grp, 1).sender = Gtxn(grp, 2).asset_receiver

\* valid_payment_to_seller without the check of the asset's receiver
valid_payment_any_asset_receiver(gs, grp) ==
    /\ Gtxn(grp, 1).type_enum = Payment
    /\ Bytes(Gtxn(grp, 1).receiver) = GlobalGet(gs, asa_owner)
    /\ Uint(Gtxn(grp, 1).amount) = GlobalGet(gs, asa_price)
    /\ Gtxn(grp, 1).sender = Gtxn(grp, 0).sender

valid_payment_to_seller(gs, grp) ==
    /\ Gtxn(grp, 1).type_enum = Payment
    /\ Bytes(Gtxn(grp, 1).receiver) = GlobalGet(gs, asa_owner)
    /\ Uint(Gtxn(grp, 1).amount) = GlobalGet(gs, asa_price)
    /\ Gtxn(grp, 1).sender = Gtxn(grp, 0).sender
    /\ Gtxn(grp, 1).sender = Gtxn(grp, 2).asset_receiver

valid_asa_transfer_from_escrow_to_buyer(gs, grp) ==
    /\ Gtxn(grp, 2).type_enum = AssetTransfer
    /\ Bytes(Gtxn(grp, 2).sender) = GlobalGet(gs, escrow_address)
    /\ Uint(Gtxn(grp, 2).xfer_asset) = GlobalGet(gs, asa_id)
    /\ Gtxn(grp, 2).asset_amount = 1

\* can_buy without asa_is_on_sale
can_buy_any_state(gs, grp) ==
    LET valid_number_of_transactions == Len(grp) = 3
    IN  /\ valid_number_of_transactions
        /\ valid_payment_to_seller(gs, grp)
        /\ valid_asa_transfer_from_escrow_to_buyer(gs, grp)

can_buy(gs, grp) ==
    LET valid_number_of_transactions == Len(grp) = 3
        asa_is_on_sale == GlobalGet(gs, app_state) = Uint(selling_in_progress)
    IN  /\ valid_number_of_transactions
        /\ asa_is_on_sale
        /\ valid_payment_to_seller(gs, grp)
        /\ valid_asa_transfer_from_escrow_to_buyer(gs, grp)

\* And() evaluates every operand: Gtxn[1] and Gtxn[2] are read whatever the
\* group size, and every == is applied whatever the other operands are
BuyFails(gs, grp) ==
    \/ Len(grp) < 3
    \/ ~Comparable(Bytes(Gtxn(grp, 1).receiver), GlobalGet(gs, asa_owner))
    \/ ~Comparable(Uint(Gtxn(grp, 1).amount), GlobalGet(gs, asa_price))
    \/ ~Comparable(Bytes(Gtxn(grp, 2).sender), GlobalGet(gs, escrow_address))
    \/ ~Comparable(Uint(Gtxn(grp, 2).xfer_asset), GlobalGet(gs, asa_id))

\* buy whose update_state leaves the listing on sale
buy_stays_on_sale(gs, grp, i) ==
    LET s1 == GlobalPut(gs, asa_owner, Bytes(Gtxn(grp, 0).sender))
    IN  IF BuyFails(gs, grp) THEN Fail(gs)
        ELSE IF can_buy(gs, grp) THEN Return(1, s1)
        ELSE Return(0, gs)

\* buy whose update_state also resets the price
buy_resets_price(gs, grp, i) ==
    LET s1 == GlobalPut(gs, asa_owner, Bytes(Gtxn(grp, 0).sender))
        s2 == GlobalPut(s1, app_state, Uint(active))
        s3 == GlobalPut(s2, asa_price, Uint(0))
    IN  IF BuyFails(gs, grp) THEN Fail(gs)
        ELSE IF can_buy(gs, grp) THEN Return(1, s3)
        ELSE Return(0, gs)

buy(gs, grp, i) ==
    LET s1 == GlobalPut(gs, asa_owner, Bytes(Gtxn(grp, 0).sender))
        s2 == GlobalPut(s1, app_state, Uint(active))
    IN  IF BuyFails(gs, grp) THEN Fail(gs)
        ELSE IF can_buy(gs, grp) THEN Return(1, s2)
        ELSE Return(0, gs)

\* valid_caller that lets the admin in as well as the owner
valid_caller_or_admin(gs, grp, i) ==
    \/ Bytes(Txn(grp, i).sender) = GlobalGet(gs, asa_owner)
    \/ Bytes(Txn(grp, i).sender) = GlobalGet(gs, app_admin)

\* valid_caller that compares the caller with the admin
valid_caller_admin(gs, grp, i) == Bytes(Txn(grp, i).sender) = GlobalGet(gs, app_admin)

valid_caller(gs, grp, i) == Bytes(Txn(grp, i).sender) = GlobalGet(gs, asa_owner)

\* app_is_initialized that holds only while a sale is in progress
app_is_on_sale(gs) == GlobalGet(gs, app_state) = Uint(selling_in_progress)

\* app_is_initialized that holds as soon as the state has been written
app_state_written(gs) == HasValue(gs, app_state)

app_is_initialized(gs) == GlobalGet(gs, app_state) # Uint(not_initialized)

can_stop_selling(gs, grp, i) ==
    LET valid_number_of_transactions == Len(grp) = 1
    IN  /\ valid_number_of_transactions
        /\ valid_caller(gs, grp, i)
        /\ app_is_initialized(gs)

\* stop_selling that resets the price when it cancels the sale
stop_selling_clears_price(gs, grp, i) ==
    LET s1 == GlobalPut(gs, app_state, Uint(active))
        s2 == GlobalPut(s1, asa_price, Uint(0))
    IN  IF can_stop_selling(gs, grp, i) THEN Return(1, s2) ELSE Return(0, gs)

stop_selling(gs, grp, i) ==
    LET s1 == GlobalPut(gs, app_state, Uint(active))
    IN  IF can_stop_selling(gs, grp, i) THEN Return(1, s1) ELSE Return(0, gs)

\* the branch application_start's Cond selects: the first whose condition
\* holds; reading application_args[0] of a call without arguments fails, and
\* so does a Cond none of whose conditions holds
\* Cond that tests the method names before the application id
Selected_names_first(grp, i) ==
    LET args == Txn(grp, i).application_args
    IN  IF args # <<>> /\ args[1] = buy_name THEN "buy"
        ELSE IF args # <<>> /\ args[1] = initialize_escrow_name THEN "initialize_escrow"
        ELSE IF args # <<>> /\ args[1] = stop_selling_name THEN "stop_selling"
        ELSE IF args # <<>> /\ args[1] = sell_name THEN "sell"
        ELSE IF Txn(grp, i).application_id = 0 THEN "app_initialization"
        ELSE "err"

Selected(grp, i) ==
    LET args == Txn(grp, i).application_args
    IN  IF Txn(grp, i).application_id = 0 THEN "app_initialization"
        ELSE IF args = <<>> THEN "err"
        ELSE IF args[1] = buy_name THEN "buy"
        ELSE IF args[1] = initialize_escrow_name THEN "initialize_escrow"
        ELSE IF args[1] = stop_selling_name THEN "stop_selling"
        ELSE IF args[1] = sell_name THEN "sell"
        ELSE "err"

application_start(gs, grp, i) ==
    LET h == Selected(grp, i)
    IN  CASE h = "app_initialization" -> app_initialization(gs, grp, i)
          [] h = "buy" -> buy(gs, grp, i)
          [] h = "initialize_escrow" -> initialize_escrow(gs, grp, i)
          [] h = "stop_selling" -> stop_selling(gs, grp, i)
          [] h = "sell" -> sell(gs, grp, i)
          [] OTHER -> Fail(gs)

approval_program(gs, grp, i) == application_start(gs, grp, i)

\* clear_program that approves only once the listing is initialized
clear_program_checked(gs) ==
    IF app_is_initialized(gs) THEN Return(1, gs) ELSE Return(0, gs)

clear_program(gs) == Return(1, gs)

\* the ledger keeps the writes of an evaluation only when it returned 1
Committed(gs, r) == IF r.ret = "accept" THEN r.store ELSE gs

-----------------------------------------------------------------------------
(* The groups submitted *)

A == Address(65)

B == Address(66)

E == Address(69)

M == Address(77)

\* the application's id once it is created
AppId == 1

Callers == {A, B, M}

\* a record whose content no handler accepts at position 1 or 2
Filler == PaymentTxn(M, M, 1)

\* sequences of n fillers
Fillers(n) == [k \in 1..n |-> Filler]

\* first arguments: the four method names and one that is none of them
FirstArgs ==
    {buy_name, initialize_escrow_name, stop_selling_name, sell_name, <<98, 105, 100>>}

\* second arguments: two prices (50 in 8 bytes, 100 in 1 byte) and an address
SecondArgs == {Itob(50), <<100>>, E}

ArgLists ==
    {<<>>}
    \cup {<<m>> : m \in FirstArgs}
    \cup {<<m, x>> : m \in FirstArgs, x \in SecondArgs}
    \cup {<<m, x, <<>>>> : m \in FirstArgs, x \in SecondArgs}

\* groups of any size around one call, the call at any position
CallGroups ==
    {[grp |-> Fillers(k) \o <<ApplicationCallTxn(s, AppId, args)>> \o Fillers(n - 1 - k),
      i |-> k] :
        <<n, k>> \in {<<n, k>> \in (1..MaxGroupSize) \X (0..MaxGroupSize - 1) : k < n},
        s \in Callers, args \in ArgLists}

Payments == {PaymentTxn(s, r, a) : s \in {A, B}, r \in {A, B}, a \in {50, 100}}

AssetTransfers ==
    {AssetTransferTxn(s, r, x, n) : s \in {E, B}, r \in {A, B}, x \in {42, 7}, n \in {1, 2}}

\* records at position 1 and 2 of a buy group: every payment, resp. every
\* asset transfer, and two records of the other type
Second == Payments \cup {AssetTransferTxn(E, A, 42, 1), AssetTransferTxn(E, B, 42, 1)}

Third == AssetTransfers \cup {PaymentTxn(A, B, 50), PaymentTxn(B, A, 100)}

\* groups of 3 or more records led by a buy call
BuyGroups ==
    {[grp |-> <<ApplicationCallTxn(s, AppId, <<buy_name>>), p, t>> \o Fillers(n - 3),
      i |-> 0] :
        n \in 3..MaxGroupSize, s \in Callers, p \in Second, t \in Third}

\* creation calls: application id 0, 2 to 4 arguments, alone or second in a group
\* (42 in 8 bytes and in 1 byte, 7 in 1 byte; an address is too long for btoi)
CreateGroups ==
    {[grp |-> Fillers(k) \o <<ApplicationCallTxn(s, 0, SubSeq(<<x, o, a, <<>>>>, 1, c))>>,
      i |-> k] :
        k \in 0..1, s \in {M, A}, c \in 2..4,
        x \in {Itob(42), <<42>>, <<7>>, A}, o \in {A, B}, a \in {M, A}}

\* creation calls whose first argument is a method name
NamedCreateGroups ==
    {[grp |-> <<ApplicationCallTxn(M, 0, SubSeq(<<buy_name, A, M, <<>>>>, 1, c))>>, i |-> 0] :
        c \in 1..4}

Groups == CallGroups \cup BuyGroups \cup CreateGroups \cup NamedCreateGroups

-----------------------------------------------------------------------------
(* The state machine *)

EmptyStore == [k \in {} |-> Uint(0)]

\* no sell has been accepted yet
NoSell == [sender |-> <<>>, price |-> <<>>]

Init ==
    /\ created = FALSE
    /\ global_state = EmptyStore
    /\ group = <<>>
    /\ group_index = 0
    /\ handler = "idle"
    /\ ret = "none"
    /\ old = EmptyStore
    /\ written = EmptyStore
    /\ inits = 0
    /\ last_sell = NoSell
    /\ scenario = 0
    /\ streak = 0

\* the groups of the end-to-end scenario, in order: creation of asset 42 for
\* owner A by admin M, initializeEscrow by M with escrow E, sell by A at 100,
\* buy by B, sell by B at 50, stopSelling by B
ScenarioSteps ==
    <<[grp |-> <<ApplicationCallTxn(M, 0, <<Itob(42), A, M>>)>>, i |-> 0],
      [grp |-> <<ApplicationCallTxn(M, AppId, <<initialize_escrow_name, E>>)>>, i |-> 0],
      [grp |-> <<ApplicationCallTxn(A, AppId, <<sell_name, <<100>>>>)>>, i |-> 0],
      [grp |-> <<ApplicationCallTxn(B, AppId, <<buy_name>>),
                 PaymentTxn(B, A, 100),
                 AssetTransferTxn(E, B, 42, 1)>>, i |-> 0],
      [grp |-> <<ApplicationCallTxn(B, AppId, <<sell_name, Itob(50)>>)>>, i |-> 0],
      [grp |-> <<ApplicationCallTxn(B, AppId, <<stop_selling_name>>)>>, i |-> 0]>>

\* the scenario goes on while the groups evaluated are its steps, one after
\* the other from the first; any other group ends it
ScenarioAfter(g) ==
    IF /\ scenario >= 0
       /\ scenario < Len(ScenarioSteps)
       /\ g = ScenarioSteps[scenario + 1]
    THEN scenario + 1
    ELSE -1

\* one evaluation of the approval program, on group g.grp for its call g.i
Evaluate(g) ==
    LET h == Selected(g.grp, g.i)
        r == approval_program(global_state, g.grp, g.i)
    IN  /\ ret' = r.ret
        /\ global_state' = Committed(global_state, r)
        /\ created' = (created \/ r.ret = "accept")
        /\ inits' = IF h = "initialize_escrow" /\ r.ret = "accept" /\ inits < MaxInits
                    THEN inits + 1 ELSE inits
        /\ last_sell' = IF h = "sell" /\ r.ret = "accept"
                        THEN [sender |-> Txn(g.grp, g.i).sender,
                              price |-> Txn(g.grp, g.i).application_args[2]]
                        ELSE last_sell
        /\ scenario' = ScenarioAfter(g)
        /\ streak' = IF h = "stop_selling" /\ r.ret = "accept"
                     THEN (IF streak < MaxStreak THEN streak + 1 ELSE streak)
                     ELSE 0
        /\ group' = g.grp
        /\ group_index' = g.i
        /\ handler' = h
        /\ old' = global_state
        /\ written' = r.store

\* g is a call to the created application whose first argument is m
CallsMethod(g, m) ==
    /\ Txn(g.grp, g.i).application_id = AppId
    /\ Txn(g.grp, g.i).application_args # <<>>
    /\ Txn(g.grp, g.i).application_args[1] = m

\* the creation call: application id 0, which the application has only
\* until it is created
AppInitialization ==
    /\ handler = "idle"
    /\ ~created
    /\ \E g \in Groups :
        /\ Txn(g.grp, g.i).application_id = 0
        /\ Evaluate(g)

Buy ==
    /\ handler = "idle"
    /\ created
    /\ \E g \in Groups :
        /\ CallsMethod(g, buy_name)
        /\ Evaluate(g)

InitializeEscrow ==
    /\ handler = "idle"
    /\ created
    /\ \E g \in Groups :
        /\ CallsMethod(g, initialize_escrow_name)
        /\ Evaluate(g)

StopSelling ==
    /\ handler = "idle"
    /\ created
    /\ \E g \in Groups :
        /\ CallsMethod(g, stop_selling_name)
        /\ Evaluate(g)

Sell ==
    /\ handler = "idle"
    /\ created
    /\ \E g \in Groups :
        /\ CallsMethod(g, sell_name)
        /\ Evaluate(g)

\* a call without arguments, or whose first argument is none of the four names
NoBranch ==
    /\ handler = "idle"
    /\ created
    /\ \E g \in Groups :
        /\ Txn(g.grp, g.i).application_id = AppId
        /\ ~CallsMethod(g, buy_name)
        /\ ~CallsMethod(g, initialize_escrow_name)
        /\ ~CallsMethod(g, stop_selling_name)
        /\ ~CallsMethod(g, sell_name)
        /\ Evaluate(g)

\* one evaluation of the clear program: a call, alone in its group, that
\* closes out its sender
ClearState ==
    /\ handler = "idle"
    /\ created
    /\ \E g \in Groups :
        /\ Txn(g.grp, g.i).application_id = AppId
        /\ Len(g.grp) = 1
        /\ LET r == clear_program(global_state)
           IN  /\ ret' = r.ret
               /\ global_state' = Committed(global_state, r)
               /\ written' = r.store
        /\ group' = g.grp
        /\ group_index' = g.i
        /\ handler' = "clear_program"
        /\ old' = global_state
        /\ scenario' = -1
        /\ streak' = 0
        /\ UNCHANGED <<created, inits, last_sell>>

\* the group is over: the next one can be evaluated
Finish ==
    /\ handler # "idle"
    /\ group' = <<>>
    /\ group_index' = 0
    /\ handler' = "idle"
    /\ ret' = "none"
    /\ old' = global_state
    /\ written' = global_state
    /\ UNCHANGED <<created, global_state, inits, last_sell, scenario, streak>>

Next ==
    \/ AppInitialization
    \/ Buy
    \/ InitializeEscrow
    \/ StopSelling
    \/ Sell
    \/ NoBranch
    \/ ClearState
    \/ Finish

Spec == Init /\ [][Next]_vars

-----------------------------------------------------------------------------
(* Vocabulary of the properties *)

\* an evaluation has just ended: group, handler, ret and old describe it
Evaluated == handler # "idle"

\* the call that was evaluated, and its arguments
Call == group[group_index + 1]

Args == Call.application_args

\* the approval program has just been evaluated
Approval == Evaluated /\ handler # "clear_program"

\* a call to the created application whose first argument is the name m
IsCallOf(m) ==
    /\ Approval
    /\ Call.application_id # 0
    /\ Args # <<>>
    /\ Args[1] = m

IsCreation == Approval /\ Call.application_id = 0

Accepted == ret = "accept"

\* the group failed: the program returned 0 or did not complete
Rejected == ret \in {"reject", "abort"}

\* lifecycle_state of a store
Lifecycle(gs) == GlobalGet(gs, app_state)

\* every field but the listed ones has the value, or the absence, it had
SameExcept(keys) ==
    /\ DOMAIN old \subseteq DOMAIN global_state
    /\ DOMAIN global_state \subseteq DOMAIN old \cup keys
    /\ \A k \in DOMAIN old \ keys : global_state[k] = old[k]

\* the conditions of a buy group, on the store gs the evaluation began with
BuyConditions(gs, grp) ==
    /\ Len(grp) = 3
    /\ Lifecycle(gs) = Uint(selling_in_progress)
    /\ grp[2].type_enum = Payment
    /\ Bytes(grp[2].receiver) = GlobalGet(gs, asa_owner)
    /\ Uint(grp[2].amount) = GlobalGet(gs, asa_price)
    /\ grp[2].sender = grp[1].sender
    /\ grp[2].sender = grp[3].asset_receiver
    /\ grp[3].type_enum = AssetTransfer
    /\ Bytes(grp[3].sender) = GlobalGet(gs, escrow_address)
    /\ Uint(grp[3].xfer_asset) = GlobalGet(gs, asa_id)
    /\ grp[3].asset_amount = 1

-----------------------------------------------------------------------------
(* C1: a buy group of exactly 3 records evaluated while the listing is     *)
(* SellingInProgress, whose record 1 pays the stored price to the stored   *)
(* owner from record 0's sender and whose record 2 transfers 1 unit of the *)
(* stored asset from the stored escrow to that sender, is accepted: the    *)
(* owner becomes record 0's sender, the state becomes Active, and escrow,  *)
(* asset id, price and admin keep their values.                            *)
C1_BuyAccepted ==
    (IsCallOf(buy_name) /\ BuyConditions(old, group)) =>
        /\ Accepted
        /\ GlobalGet(global_state, asa_owner) = Bytes(group[1].sender)
        /\ Lifecycle(global_state) = Uint(active)
        /\ SameExcept({asa_owner, app_state})
        /\ {escrow_address, asa_id, asa_price, app_admin} \subseteq DOMAIN global_state

\* an accepted buy that changed the owner
C1_Witness ==
    /\ IsCallOf(buy_name)
    /\ BuyConditions(old, group)
    /\ Accepted
    /\ GlobalGet(old, asa_owner) = Bytes(A)
    /\ GlobalGet(global_state, asa_owner) = Bytes(B)
    /\ Lifecycle(global_state) = Uint(active)

(* C2: a buy group is rejected, and the store is left as it was, whenever  *)
(* the group size is not 3, or the listing is not SellingInProgress, or a  *)
(* condition on record 1 or on record 2 is false; in particular when the   *)
(* payment's receiver is not the current owner and all the rest is right.  *)
C2_BuyRejected ==
    (IsCallOf(buy_name) /\ ~BuyConditions(old, group)) =>
        /\ Rejected
        /\ global_state = old

\* a buy rejected for its payment's receiver alone
C2_Witness ==
    /\ IsCallOf(buy_name)
    /\ Rejected
    /\ global_state = old
    /\ Len(group) = 3
    /\ Bytes(group[2].receiver) # GlobalGet(old, asa_owner)
    /\ BuyConditions(old, [group EXCEPT ![2].receiver = GlobalGet(old, asa_owner).bytes])

(* C3: once an initializeEscrow call has been accepted, no later           *)
(* initializeEscrow call is accepted, whatever its sender, group size or   *)
(* arguments, and escrow_address keeps the value that call gave it.        *)
C3_InitializeOnce ==
    [][inits >= 1 =>
        /\ inits' = inits
        /\ (handler' = "initialize_escrow" => ret' # "accept")
        /\ HasValue(global_state', escrow_address)
        /\ GlobalGet(global_state', escrow_address) = GlobalGet(global_state, escrow_address)]_vars

\* a second initializeEscrow call, by the admin and alone in its group, rejected
C3_Witness ==
    /\ IsCallOf(initialize_escrow_name)
    /\ inits = 1
    /\ HasValue(old, escrow_address)
    /\ Len(group) = 1
    /\ Len(Args) = 2
    /\ Bytes(Call.sender) = GlobalGet(old, app_admin)
    /\ Bytes(Args[2]) # GlobalGet(old, escrow_address)
    /\ Rejected
    /\ global_state = old

\* the preconditions of initializeEscrow
InitializeConditions ==
    /\ Len(group) = 1
    /\ ~HasValue(old, escrow_address)
    /\ Bytes(Call.sender) = GlobalGet(old, app_admin)

\* the effect of an accepted initializeEscrow
InitializeEffect ==
    /\ HasValue(global_state, escrow_address)
    /\ global_state[escrow_address] = Bytes(Args[2])
    /\ Lifecycle(global_state) = Uint(active)
    /\ SameExcept({escrow_address, app_state})

(* C4 as stated: an initializeEscrow call is accepted if and only if the   *)
(* group size is 1, escrow_address is unset and the caller is the admin;   *)
(* accepted, it sets escrow_address to the second argument and the state   *)
(* to Active and changes nothing else; otherwise it changes nothing.       *)
C4_Original ==
    IsCallOf(initialize_escrow_name) =>
        /\ Accepted <=> InitializeConditions
        /\ Accepted => InitializeEffect
        /\ ~Accepted => global_state = old

(* C4, amended: an initializeEscrow call is accepted if and only if the    *)
(* group size is 1, escrow_address is unset, the caller is the admin and   *)
(* the call has a second argument; accepted, it sets escrow_address to     *)
(* that argument and the state to Active and changes nothing else;         *)
(* otherwise it is rejected and changes nothing.                           *)
C4_InitializeEscrow ==
    IsCallOf(initialize_escrow_name) =>
        /\ Accepted <=> (InitializeConditions /\ Len(Args) >= 2)
        /\ Accepted => InitializeEffect
        /\ ~Accepted => (Rejected /\ global_state = old)

\* an accepted initializeEscrow
C4_Witness ==
    /\ IsCallOf(initialize_escrow_name)
    /\ Accepted
    /\ ~HasValue(old, escrow_address)
    /\ global_state[escrow_address] = Bytes(E)
    /\ Lifecycle(old) = Uint(not_initialized)
    /\ Lifecycle(global_state) = Uint(active)

(* C5: in every listing state, a sell call whose sender is not the current *)
(* owner is rejected and leaves the price, the state and every other field *)
(* as they were.                                                           *)
C5_SellRequiresOwner ==
    (IsCallOf(sell_name) /\ Bytes(Call.sender) # GlobalGet(old, asa_owner)) =>
        /\ Rejected
        /\ global_state = old

\* a sell by the admin, not the owner, right in all the rest, rejected while
\* the listing is on sale
C5_Witness ==
    /\ IsCallOf(sell_name)
    /\ Bytes(Call.sender) # GlobalGet(old, asa_owner)
    /\ Bytes(Call.sender) = GlobalGet(old, app_admin)
    /\ Len(group) = 1
    /\ Len(Args) = 2
    /\ Len(Args[2]) <= 8
    /\ Lifecycle(old) = Uint(selling_in_progress)
    /\ Rejected
    /\ global_state = old

\* the preconditions of sell
SellConditions ==
    /\ Len(group) = 1
    /\ Len(Args) = 2
    /\ Lifecycle(old) \in {Uint(active), Uint(selling_in_progress)}
    /\ Bytes(Call.sender) = GlobalGet(old, asa_owner)

\* the effect of an accepted sell: the price is the integer the second
\* argument encodes, most significant byte first
SellEffect ==
    /\ HasValue(global_state, asa_price)
    /\ global_state[asa_price] = Uint(BigEndian(Args[2]))
    /\ Lifecycle(global_state) = Uint(selling_in_progress)
    /\ SameExcept({asa_price, app_state})

(* C6 as stated: a sell call is accepted if and only if the group size is  *)
(* 1, the call has exactly 2 arguments, the state is Active or             *)
(* SellingInProgress and the caller is the owner; accepted, it stores the  *)
(* supplied price and sets the state to SellingInProgress.                 *)
C6_Original ==
    IsCallOf(sell_name) =>
        /\ Accepted <=> SellConditions
        /\ Accepted => SellEffect

(* C6, amended: a sell call is accepted if and only if the group size is   *)
(* 1, the call has exactly 2 arguments, the state is Active or             *)
(* SellingInProgress, the caller is the owner and the price argument is at *)
(* most 8 bytes long; accepted, it stores the integer the price argument   *)
(* encodes and sets the state to SellingInProgress, so a sell issued while *)
(* SellingInProgress re-lists at the new price; otherwise, as for a sell   *)
(* in NotInitialized by the owner, it is rejected and changes nothing.     *)
C6_Sell ==
    IsCallOf(sell_name) =>
        /\ Accepted <=> (SellConditions /\ Len(Args[2]) <= 8)
        /\ Accepted => SellEffect
        /\ ~Accepted => (Rejected /\ global_state = old)

\* a sell accepted while the listing is on sale at another price
C6_Witness ==
    /\ IsCallOf(sell_name)
    /\ Accepted
    /\ Lifecycle(old) = Uint(selling_in_progress)
    /\ GlobalGet(old, asa_price) = Uint(50)
    /\ global_state[asa_price] = Uint(100)
    /\ Lifecycle(global_state) = Uint(selling_in_progress)

\* the preconditions of stopSelling
StopConditions ==
    /\ Len(group) = 1
    /\ Bytes(Call.sender) = GlobalGet(old, asa_owner)
    /\ Lifecycle(old) # Uint(not_initialized)

(* C7: a stopSelling call is accepted if and only if the group size is 1,  *)
(* the caller is the owner and the state is not NotInitialized; accepted,  *)
(* it sets the state to Active and changes no other field (the price keeps *)
(* its last value); otherwise it is rejected and changes nothing.          *)
C7_StopSelling ==
    IsCallOf(stop_selling_name) =>
        /\ Accepted <=> StopConditions
        /\ Accepted => (Lifecycle(global_state) = Uint(active) /\ SameExcept({app_state}))
        /\ ~Accepted => (Rejected /\ global_state = old)

\* a stopSelling that cancelled a sale and kept its price
C7_Witness ==
    /\ IsCallOf(stop_selling_name)
    /\ Accepted
    /\ Lifecycle(old) = Uint(selling_in_progress)
    /\ Lifecycle(global_state) = Uint(active)
    /\ GlobalGet(global_state, asa_price) = Uint(100)
    /\ GlobalGet(old, asa_price) = Uint(100)

(* C8: stopSelling is idempotent: while the state is Active, a stopSelling *)
(* call by the current owner, alone in its group, is accepted and leaves   *)
(* all six fields exactly as they were, however many came before it.       *)
C8_StopSellingIdempotent ==
    (/\ IsCallOf(stop_selling_name)
     /\ Lifecycle(old) = Uint(active)
     /\ Len(group) = 1
     /\ Bytes(Call.sender) = GlobalGet(old, asa_owner)) =>
        /\ Accepted
        /\ global_state = old

\* the second of two stopSelling calls in a row, both in the Active state
C8_Witness ==
    /\ IsCallOf(stop_selling_name)
    /\ streak = 2
    /\ Lifecycle(old) = Uint(active)
    /\ Accepted
    /\ global_state = old

\* the state is NotInitialized: written, with that value
NotInitialized(gs) == HasValue(gs, app_state) /\ gs[app_state] = Uint(not_initialized)

\* the state is Active or SellingInProgress
Initialized(gs) == HasValue(gs, app_state) /\ gs[app_state] # Uint(not_initialized)

(* C9: the state is NotInitialized right after creation; only an accepted  *)
(* initializeEscrow moves it out of NotInitialized (sell, buy and          *)
(* stopSelling are rejected there); once it has left NotInitialized, no    *)
(* group returns it there.                                                 *)
C9_NotInitializedOnce ==
    /\ []((IsCreation /\ Accepted) => NotInitialized(global_state))
    /\ []((/\ NotInitialized(old)
           /\ \/ IsCallOf(sell_name)
              \/ IsCallOf(buy_name)
              \/ IsCallOf(stop_selling_name)) => Rejected)
    /\ [][(NotInitialized(global_state) /\ ~NotInitialized(global_state')) =>
            /\ handler' = "initialize_escrow"
            /\ ret' = "accept"]_vars
    /\ [][Initialized(global_state) => Initialized(global_state')]_vars

\* a stopSelling by the owner, alone in its group, rejected in NotInitialized
C9_Witness ==
    /\ IsCallOf(stop_selling_name)
    /\ NotInitialized(old)
    /\ NotInitialized(global_state)
    /\ Len(group) = 1
    /\ Bytes(Call.sender) = GlobalGet(old, asa_owner)
    /\ Rejected

\* the effect of an accepted creation: the asset id is the integer the first
\* argument encodes, most significant byte first
CreationEffect ==
    /\ created
    /\ DOMAIN global_state = {app_state, asa_id, asa_owner, app_admin}
    /\ global_state[app_state] = Uint(not_initialized)
    /\ global_state[asa_id] = Uint(BigEndian(Args[1]))
    /\ global_state[asa_owner] = Bytes(Args[2])
    /\ global_state[app_admin] = Bytes(Args[3])

\* the effect of a creation that did not complete: no application, no field
NothingCreated ==
    /\ ret = "abort"
    /\ ~created
    /\ DOMAIN global_state = {}

(* C10 as stated: a creation call with exactly 3 arguments is accepted and *)
(* yields the state NotInitialized, the asset id, owner and admin of its   *)
(* arguments and no escrow address; with any other number of arguments it  *)
(* aborts and stores nothing.                                              *)
C10_Original ==
    IsCreation =>
        /\ Len(Args) = 3 => (Accepted /\ CreationEffect)
        /\ Len(Args) # 3 => NothingCreated

(* C10, amended: a creation call with exactly 3 arguments, the first at    *)
(* most 8 bytes long, is accepted and yields the state NotInitialized, the *)
(* asset id the first argument encodes, the owner and the admin of the     *)
(* second and third arguments and no escrow address; a creation call with  *)
(* any other number of arguments, or with a longer first argument, aborts  *)
(* and stores nothing.                                                     *)
C10_Creation ==
    IsCreation =>
        /\ (Len(Args) = 3 /\ Len(Args[1]) <= 8) => (Accepted /\ CreationEffect)
        /\ (Len(Args) # 3 \/ Len(Args[1]) > 8) => NothingCreated

\* an accepted creation whose first argument is the single byte 42
C10_Witness ==
    /\ IsCreation
    /\ Accepted
    /\ Args = <<<<42>>, A, M>>
    /\ global_state[asa_id] = Uint(42)
    /\ global_state[asa_owner] = Bytes(A)
    /\ global_state[app_admin] = Bytes(M)
    /\ ~HasValue(global_state, escrow_address)

(* C11: every group that is not accepted leaves all six fields as they     *)
(* were, whatever the call (initializeEscrow, sell, buy, stopSelling or a  *)
(* first argument that is none of them) and whatever the state; and the    *)
(* handlers of these calls have written nothing when they reject: no       *)
(* transition is applied in part.                                          *)
C11_RejectChangesNothing ==
    (Evaluated /\ Rejected) =>
        /\ global_state = old
        /\ ~IsCreation => written = old

\* a call whose first argument names no method, failed while a sale is on
C11_Witness ==
    /\ Approval
    /\ ~IsCreation
    /\ Args # <<>>
    /\ Args[1] \notin {buy_name, initialize_escrow_name, stop_selling_name, sell_name}
    /\ Rejected
    /\ Lifecycle(old) = Uint(selling_in_progress)
    /\ global_state = old

\* the four method names
MethodNames == {buy_name, initialize_escrow_name, stop_selling_name, sell_name}

(* C12: a call to the created application is handled by the one handler    *)
(* its first argument names (buy, initializeEscrow, stopSelling, sell); a  *)
(* call whose first argument is none of the four is handled by none, is    *)
(* rejected and changes nothing; a creation call (application id 0) is     *)
(* handled by the creation handler whatever its first argument.            *)
C12_Dispatch ==
    /\ IsCreation => handler = "app_initialization"
    /\ IsCallOf(buy_name) => handler = "buy"
    /\ IsCallOf(initialize_escrow_name) => handler = "initialize_escrow"
    /\ IsCallOf(stop_selling_name) => handler = "stop_selling"
    /\ IsCallOf(sell_name) => handler = "sell"
    /\ (Approval /\ ~IsCreation /\ \A m \in MethodNames : ~IsCallOf(m)) =>
        /\ handler = "err"
        /\ Rejected
        /\ global_state = old

\* a creation call whose first argument is the name buy, handled as a creation
C12_Witness ==
    /\ IsCreation
    /\ Args = <<buy_name, A, M>>
    /\ handler = "app_initialization"
    /\ Accepted
    /\ global_state[asa_id] = Uint(BigEndian(buy_name))

\* the store with the six fields given
Listing(state, id, price, owner, admin, escrow) ==
    [k \in {app_state, asa_id, asa_price, asa_owner, app_admin, escrow_address} |->
        CASE k = app_state -> Uint(state)
          [] k = asa_id -> Uint(id)
          [] k = asa_price -> Uint(price)
          [] k = asa_owner -> Bytes(owner)
          [] k = app_admin -> Bytes(admin)
          [] k = escrow_address -> Bytes(escrow)]

\* lifecycle_state after each step of the scenario
ScenarioStates ==
    <<not_initialized, active, selling_in_progress, active, selling_in_progress, active>>

(* C13: the end-to-end scenario is accepted step by step: Create(42, A, M), *)
(* InitializeEscrow by M with E, Sell by A at 100, Buy by B with payment   *)
(* B to A of 100 and transfer E to B of 1 unit of 42, Sell by B at 50,     *)
(* StopSelling by B; the state after each step is NotInitialized, Active,  *)
(* SellingInProgress, Active, SellingInProgress, Active (each of the last  *)
(* two entered more than once), and the final store is Active, owner B,    *)
(* price 50, escrow E, asset 42, admin M.                                  *)
C13_Scenario ==
    (scenario >= 1) =>
        /\ Evaluated => Accepted
        /\ Lifecycle(global_state) = Uint(ScenarioStates[scenario])
        /\ scenario >= 4 => GlobalGet(global_state, asa_owner) = Bytes(B)
        /\ scenario = 6 => global_state = Listing(active, 42, 50, B, M, E)

\* the last step of the scenario has just been accepted
C13_Witness ==
    /\ scenario = 6
    /\ Evaluated
    /\ Accepted
    /\ global_state = Listing(active, 42, 50, B, M, E)

(* C14: the clear program approves every request, in every state of the    *)
(* listing and for every caller, and leaves the listing as it was.         *)
C14_ClearApproves ==
    (handler = "clear_program") =>
        /\ Accepted
        /\ written = old
        /\ global_state = old

\* a clear request approved before the escrow is initialized, from an account
\* that is neither the owner nor the admin
C14_Witness ==
    /\ handler = "clear_program"
    /\ Accepted
    /\ NotInitialized(old)
    /\ Bytes(Call.sender) # GlobalGet(old, asa_owner)
    /\ Bytes(Call.sender) # GlobalGet(old, app_admin)
    /\ global_state = old

(* C15: the price is never used while stale: whenever the state is         *)
(* SellingInProgress, asset_price is the price argument of the last        *)
(* accepted sell and that sell was sent by the current owner; so the       *)
(* amount of every accepted buy is the price the owner who receives the    *)
(* payment chose, never one left by an earlier owner or from before a      *)
(* stopSelling.                                                            *)
C15_PriceNeverStale ==
    /\ Lifecycle(global_state) = Uint(selling_in_progress) =>
        /\ GlobalGet(global_state, asa_price) = Uint(BigEndian(last_sell.price))
        /\ GlobalGet(global_state, asa_owner) = Bytes(last_sell.sender)
    /\ (IsCallOf(buy_name) /\ Accepted) =>
        /\ group[2].amount = BigEndian(last_sell.price)
        /\ group[2].receiver = last_sell.sender
        /\ Bytes(last_sell.sender) = GlobalGet(old, asa_owner)

\* a buy by A accepted at the price 50 that the seller B asked in the last sell
C15_Witness ==
    /\ IsCallOf(buy_name)
    /\ Accepted
    /\ inits = 1
    /\ last_sell = [sender |-> B, price |-> Itob(50)]
    /\ group[2].amount = 50
    /\ group[2].receiver = B
    /\ GlobalGet(global_state, asa_owner) = Bytes(A)
    /\ GlobalGet(global_state, app_admin) = Bytes(A)

(* C16: in every accepted buy the account stored as the new owner is the   *)
(* sender of the payment (record 1) and the receiver of the asset unit     *)
(* (record 2): no accepted buy makes one account the owner while another   *)
(* pays or receives the asset.                                             *)
C16_BuyerPaysAndReceives ==
    (IsCallOf(buy_name) /\ Accepted) =>
        /\ Len(group) = 3
        /\ GlobalGet(global_state, asa_owner) = Bytes(group[2].sender)
        /\ GlobalGet(global_state, asa_owner) = Bytes(group[3].asset_receiver)
        /\ group[2].type_enum = Payment
        /\ group[3].type_enum = AssetTransfer

\* an accepted buy in which A pays B and receives the asset unit 7
C16_Witness ==
    /\ IsCallOf(buy_name)
    /\ Accepted
    /\ group[2].sender = A
    /\ group[2].receiver = B
    /\ group[3].asset_receiver = A
    /\ group[3].xfer_asset = 7
    /\ GlobalGet(global_state, asa_owner) = Bytes(A)

\* a sell call, alone in its group, with 2 arguments, from the owner of an
\* initialized listing
OwnerSells ==
    /\ IsCallOf(sell_name)
    /\ Initialized(old)
    /\ Len(group) = 1
    /\ Len(Args) = 2
    /\ Bytes(Call.sender) = GlobalGet(old, asa_owner)

\* a stopSelling call, alone in its group, from the owner of an initialized
\* listing
OwnerStops ==
    /\ IsCallOf(stop_selling_name)
    /\ Initialized(old)
    /\ Len(group) = 1
    /\ Bytes(Call.sender) = GlobalGet(old, asa_owner)

(* C17 as stated: the owner is never locked out: in every state Active or  *)
(* SellingInProgress, a sell call with 2 arguments, alone in its group,    *)
(* from the current owner is accepted, and so is a stopSelling call, alone *)
(* in its group, from the current owner.                                   *)
C17_Original ==
    /\ OwnerSells => Accepted
    /\ OwnerStops => Accepted

(* C17, amended: in every state Active or SellingInProgress, a sell call   *)
(* with 2 arguments, alone in its group, from the current owner, whose     *)
(* price argument is at most 8 bytes long, is accepted, and so is a        *)
(* stopSelling call, alone in its group, from the current owner; for the   *)
(* first owner and for every account that became the owner through a buy.  *)
C17_OwnerNeverLockedOut ==
    /\ (OwnerSells /\ Len(Args[2]) <= 8) => Accepted
    /\ OwnerStops => Accepted

\* step 5 of the scenario: B, who became the owner through a buy, lists the
\* asset at a new price
C17_Witness ==
    /\ OwnerSells
    /\ Accepted
    /\ Lifecycle(old) = Uint(active)
    /\ last_sell.sender = Call.sender
    /\ GlobalGet(old, asa_price) # GlobalGet(global_state, asa_price)
    /\ GlobalGet(global_state, asa_owner) # GlobalGet(global_state, app_admin)
    /\ inits = 1
    /\ scenario = 5

(* C18: in every reachable state the escrow address is set if and only if  *)
(* the state is not NotInitialized; so initializeEscrow is accepted only   *)
(* in NotInitialized, though its guard tests the escrow field, and every   *)
(* state in which a buy is accepted has its escrow address set.            *)
C18_EscrowSetIffInitialized ==
    /\ HasValue(global_state, escrow_address) <=> Initialized(global_state)
    /\ (IsCallOf(initialize_escrow_name) /\ Accepted) => NotInitialized(old)
    /\ (IsCallOf(buy_name) /\ Accepted) => HasValue(old, escrow_address)

\* an initializeEscrow call by the admin, alone in its group, rejected in the
\* Active state, where the escrow address is set
C18_Witness ==
    /\ IsCallOf(initialize_escrow_name)
    /\ Rejected
    /\ Len(group) = 1
    /\ Len(Args) = 2
    /\ Bytes(Call.sender) = GlobalGet(old, app_admin)
    /\ Lifecycle(old) = Uint(active)
    /\ HasValue(old, escrow_address)
    /\ HasValue(global_state, escrow_address)
    /\ Initialized(global_state)

\* a field of a store: the set of its value, empty while it is unset
Field(gs, key) == IF key \in DOMAIN gs THEN {gs[key]} ELSE {}

(* C19: after creation each field has one writer: asset id and admin never *)
(* change; the owner changes only in an accepted buy, the price only in an *)
(* accepted sell, the escrow address only in an accepted initializeEscrow; *)
(* every other accepted call leaves the field as it was.                   *)
C19_OneWriterPerField ==
    [][created =>
        /\ Field(global_state', asa_id) = Field(global_state, asa_id)
        /\ Field(global_state', app_admin) = Field(global_state, app_admin)
        /\ Field(global_state', asa_owner) # Field(global_state, asa_owner) =>
            (handler' = "buy" /\ ret' = "accept")
        /\ Field(global_state', asa_price) # Field(global_state, asa_price) =>
            (handler' = "sell" /\ ret' = "accept")
        /\ Field(global_state', escrow_address) # Field(global_state, escrow_address) =>
            (handler' = "initialize_escrow" /\ ret' = "accept")]_vars

\* an accepted buy that changed the owner and left a set price as it was
C19_Witness ==
    /\ IsCallOf(buy_name)
    /\ Accepted
    /\ Field(global_state, asa_owner) # Field(old, asa_owner)
    /\ Field(global_state, asa_price) = {Uint(100)}
    /\ Field(old, asa_price) = {Uint(100)}
    /\ Field(global_state, escrow_address) = Field(old, escrow_address)

(* C20: while the state is Active, no group whose call is sent by another  *)
(* account than the current owner changes any field: its buy is rejected   *)
(* (no sale is in progress), its initializeEscrow is rejected (the escrow  *)
(* address is set: the admin has no power once the listing is              *)
(* initialized), its sell and its stopSelling are rejected (not the        *)
(* owner).                                                                 *)
C20_ActiveOnlyOwnerActs ==
    (/\ Evaluated
     /\ Lifecycle(old) = Uint(active)
     /\ Bytes(Call.sender) # GlobalGet(old, asa_owner)) =>
        /\ global_state = old
        /\ Approval => Rejected

\* a buy right in every record but sent while the state is Active, rejected
C20_Witness ==
    /\ IsCallOf(buy_name)
    /\ Lifecycle(old) = Uint(active)
    /\ Bytes(Call.sender) # GlobalGet(old, asa_owner)
    /\ BuyConditions(GlobalPut(old, app_state, Uint(selling_in_progress)), group)
    /\ Rejected
    /\ global_state = old

====
